---- MODULE Spec2Model ----
(***************************************************************************)
(* generate_terraform_ctags.py: schema acquisition with terraform, then    *)
(* one synthetic configuration file and one ctags invocation per provider. *)
(*                                                                         *)
(* A string is a sequence of one-character strings, so that str.replace,   *)
(* f-string formatting and path joining are computed character by          *)
(* character. A Python dict is the sequence of its (key, value) pairs in   *)
(* insertion order. An optional value is None (<<>>) or Some(v) (<<v>>).   *)
(***************************************************************************)
EXTENDS Integers, Sequences, FiniteSets, TLC

----------------------------------------------------------------------------
\* Literals of the program

WORKING_DIRECTORY ==
    <<"/", "t", "m", "p", "/", "g", "e", "n", "e", "r", "a", "t", "e", "_", "t", "e", "r", "r", "a", "f", "o", "r", "m", "_", "c", "t", "a", "g", "s">>
CTAGS_COMMAND ==
    <<"c", "t", "a", "g", "s">>
TERRAFORM_COMMAND ==
    <<"t", "e", "r", "r", "a", "f", "o", "r", "m">>
TERRAFORM_SCHEMAS_FILENAME ==
    <<"p", "r", "o", "v", "i", "d", "e", "r", "s", "_", "s", "c", "h", "e", "m", "a", "s", ".", "j", "s", "o", "n">>
TERRAFORM_SCRIPT_FILENAME ==
    <<"g", "e", "n", "e", "r", "a", "t", "e", "_", "s", "c", "h", "e", "m", "a", "s", "_", "s", "c", "r", "i", "p", "t", ".", "t", "f">>
MAIN_TF_FILENAME ==
    <<"m", "a", "i", "n", ".", "t", "f">>
LOCK_FILENAME ==
    <<".", "t", "e", "r", "r", "a", "f", "o", "r", "m", ".", "l", "o", "c", "k", ".", "h", "c", "l">>
REGISTRY_HOST ==
    <<"r", "e", "g", "i", "s", "t", "r", "y", ".", "t", "e", "r", "r", "a", "f", "o", "r", "m", ".", "i", "o", "/">>
UNKNOWN ==
    <<"u", "n", "k", "n", "o", "w", "n">>
TAGS_SUFFIX ==
    <<".", "h", "c", "l", ".", "t", "a", "g", "s">>
TerraformInitArgv ==
    <<TERRAFORM_COMMAND, <<"i", "n", "i", "t">>>>
TerraformSchemaArgv ==
    <<TERRAFORM_COMMAND, <<"p", "r", "o", "v", "i", "d", "e", "r", "s">>, <<"s", "c", "h", "e", "m", "a">>, <<"-", "j", "s", "o", "n">>>>

----------------------------------------------------------------------------
\* Python and library primitives

None == <<>>
Some(v) == <<v>>

StartsWith(s, prefix) ==
    /\ Len(s) >= Len(prefix)
    /\ SubSeq(s, 1, Len(prefix)) = prefix

\* str.replace(old, new): every non-overlapping occurrence, leftmost first.
RECURSIVE str_replace(_, _, _)
str_replace(s, old, new) ==
    IF s = <<>> THEN <<>>
    ELSE IF StartsWith(s, old)
         THEN new \o str_replace(SubSeq(s, Len(old) + 1, Len(s)), old, new)
         ELSE <<Head(s)>> \o str_replace(Tail(s), old, new)

\* pathlib: directory / name (an absolute name replaces the directory).
PathJoin(directory, name) ==
    IF name # <<>> /\ Head(name) = "/"
    THEN name
    ELSE directory \o <<"/">> \o name

HasKey(d, k) == \E i \in 1..Len(d) : d[i][1] = k

\* dict.get(k, default)
DictGet(d, k, default) ==
    IF HasKey(d, k)
    THEN d[CHOOSE i \in 1..Len(d) : d[i][1] = k][2]
    ELSE default

\* dict.get(k): None when the key is missing
DictGetOpt(d, k) ==
    IF HasKey(d, k) THEN Some(DictGet(d, k, None)) ELSE None

\* d[k] = v: a new key is appended, an existing key keeps its position
RECURSIVE DictSet(_, _, _)
DictSet(d, k, v) ==
    IF d = <<>> THEN <<<<k, v>>>>
    ELSE IF Head(d)[1] = k
         THEN <<<<k, v>>>> \o Tail(d)
         ELSE <<Head(d)>> \o DictSet(Tail(d), k, v)

\* dict.keys(), in insertion order
RECURSIVE DictKeys(_)
DictKeys(d) ==
    IF d = <<>> THEN <<>> ELSE <<Head(d)[1]>> \o DictKeys(Tail(d))

\* open(path, 'w'): the file is created, or truncated when it exists.
OpenAppend(old) == IF old = None THEN <<>> ELSE old[1]
OpenWrite(old) == <<>>

\* os.unlink(path): the file no longer exists.
UnlinkKeeps(old) == old
Unlink(old) == None

\* subprocess.check_call returns normally only on exit code 0.
call_ignoring_status(rc) == TRUE
check_call(rc) == rc = 0

----------------------------------------------------------------------------
\* _generate_terraform_tags_for_provider: the pure parts

provider_name(provider_spec) ==
    str_replace(str_replace(provider_spec, REGISTRY_HOST, <<>>),
                <<"/">>, <<"_">>)

resource_line(name) ==
    <<"r", "e", "s", "o", "u", "r", "c", "e", " ", "\"">> \o name \o <<"\"", " ", "\"">> \o name \o <<"\"", " ", "{", "}", "\n">>

data_line(name) ==
    <<"d", "a", "t", "a", " ", "\"">> \o name \o <<"\"", " ", "\"">> \o name \o <<"\"", " ", "{", "}", "\n">>

RECURSIVE write_resources(_, _)
write_resources(file, resource_schemas) ==
    IF resource_schemas = <<>> THEN file
    ELSE write_resources(file \o resource_line(Head(resource_schemas)),
                         Tail(resource_schemas))

RECURSIVE write_data_sources(_, _)
write_data_sources(file, data_source_schemas) ==
    IF data_source_schemas = <<>> THEN file
    ELSE write_data_sources(file \o data_line(Head(data_source_schemas)),
                            Tail(data_source_schemas))

\* The with-block of lines 130-136: the file's contents when it is closed.
script_resources_only(old, resource_schemas, data_source_schemas) ==
    write_resources(OpenWrite(old), resource_schemas)
script_text(old, resource_schemas, data_source_schemas) ==
    write_data_sources(write_resources(OpenWrite(old), resource_schemas),
                       data_source_schemas)

\* provider_version or 'unknown': None and '' are both falsy.
version_as_str(provider_version) ==
    IF provider_version = None THEN <<"N", "o", "n", "e">> ELSE provider_version[1]
version_or_unknown(provider_version) ==
    IF provider_version # None /\ provider_version[1] # <<>>
    THEN provider_version[1]
    ELSE UNKNOWN

output_filename(provider_spec, provider_version) ==
    PathJoin(WORKING_DIRECTORY,
             provider_name(provider_spec) \o <<"-">>
                 \o version_or_unknown(provider_version) \o TAGS_SUFFIX)

script_filename == PathJoin(WORKING_DIRECTORY, TERRAFORM_SCRIPT_FILENAME)

ctags_argv_swapped(provider_spec, provider_version) ==
    <<CTAGS_COMMAND, <<"-", "f">>,
      script_filename, output_filename(provider_spec, provider_version)>>
ctags_argv(provider_spec, provider_version) ==
    <<CTAGS_COMMAND, <<"-", "f">>,
      output_filename(provider_spec, provider_version), script_filename>>

----------------------------------------------------------------------------
\* What terraform may produce: lock files and schema documents

MaxProviders == 2
MaxNames == 2
MaxRuns == 2

SPEC_DNS ==
    <<"r", "e", "g", "i", "s", "t", "r", "y", ".", "t", "e", "r", "r", "a", "f", "o", "r", "m", ".", "i", "o", "/", "h", "a", "s", "h", "i", "c", "o", "r", "p", "/", "d", "n", "s">>
SPEC_SHORT ==
    <<"h", "a", "s", "h", "i", "c", "o", "r", "p", "/", "d", "n", "s">>
SPEC_MIRROR ==
    <<"e", "x", "a", "m", "p", "l", "e", ".", "c", "o", "m", "/", "r", "e", "g", "i", "s", "t", "r", "y", ".", "t", "e", "r", "r", "a", "f", "o", "r", "m", ".", "i", "o", "/", "d", "n", "s">>
NAME_A ==
    <<"d", "n", "s", "_", "a", "_", "r", "e", "c", "o", "r", "d", "_", "s", "e", "t">>
NAME_PTR ==
    <<"d", "n", "s", "_", "p", "t", "r", "_", "r", "e", "c", "o", "r", "d">>
VERSION_DNS ==
    <<"3", ".", "2", ".", "4">>
STALE_SCRIPT ==
    <<"r", "e", "s", "o", "u", "r", "c", "e", " ", "\"", "o", "l", "d", "\"", " ", "\"", "o", "l", "d", "\"", " ", "{", "}", "\n">>

SpecPool == <<SPEC_DNS, SPEC_SHORT, SPEC_MIRROR>>
LockPool == <<SPEC_DNS, SPEC_SHORT>>
NamePool == {NAME_A, NAME_PTR}
ExitCodes == {0, 1}

Range(s) == {s[i] : i \in 1..Len(s)}

\* Sequences without repetition over S, of length at most n.
RECURSIVE InjSeqs(_, _)
InjSeqs(S, n) ==
    IF n = 0 THEN {<<>>}
    ELSE LET shorter == InjSeqs(S, n - 1)
         IN  shorter \cup
             {Append(s, x) : <<s, x>> \in
                 {p \in shorter \X S : p[2] \notin Range(p[1])}}

\* A JSON object whose keys are the given names.
RECURSIVE NamesDict(_)
NamesDict(names) ==
    IF names = <<>> THEN <<>>
    ELSE <<<<Head(names), "block">>>> \o NamesDict(Tail(names))

\* One provider's schema; a section without entries is left out of the JSON.
ProviderSchema(rs, ds) ==
    (IF rs = <<>> THEN <<>> ELSE <<<<"resource_schemas", NamesDict(rs)>>>>)
    \o (IF ds = <<>> THEN <<>>
        ELSE <<<<"data_source_schemas", NamesDict(ds)>>>>)

\* <<spec, resource names, data source names>> with at most n names in all.
ProviderEntries(n) ==
    {e \in Range(SpecPool) \X InjSeqs(NamePool, n) \X InjSeqs(NamePool, n) :
        Len(e[2]) + Len(e[3]) <= n}

RECURSIVE TotalNames(_)
TotalNames(l) ==
    IF l = <<>> THEN 0
    ELSE Len(Head(l)[2]) + Len(Head(l)[3]) + TotalNames(Tail(l))

\* Lists of at most n providers with distinct specs and at most MaxNames names.
RECURSIVE ProviderLists(_)
ProviderLists(n) ==
    IF n = 0 THEN {<<>>}
    ELSE LET shorter == ProviderLists(n - 1)
         IN  shorter \cup
             {Append(p[1], p[2]) : p \in
                 {q \in shorter \X ProviderEntries(MaxNames) :
                     /\ \A i \in 1..Len(q[1]) : q[1][i][1] # q[2][1]
                     /\ TotalNames(q[1]) + Len(q[2][2]) + Len(q[2][3])
                            <= MaxNames}}

RECURSIVE ProviderSchemasDict(_)
ProviderSchemasDict(l) ==
    IF l = <<>> THEN <<>>
    ELSE <<<<Head(l)[1], ProviderSchema(Head(l)[2], Head(l)[3])>>>>
         \o ProviderSchemasDict(Tail(l))

\* The documents `terraform providers schema -json` may print.
SchemaDocs ==
    {IF l = <<>> THEN <<>>
     ELSE <<<<"provider_schemas", ProviderSchemasDict(l)>>>> :
        l \in ProviderLists(MaxProviders)}

\* The provider section of a lock file over the first i specs of LockPool.
RECURSIVE LockProviders(_)
LockProviders(i) ==
    IF i = 0 THEN {<<>>}
    ELSE LET shorter == LockProviders(i - 1)
         IN  shorter \cup
             {Append(d, <<LockPool[i], <<<<"version", VERSION_DNS>>>>>>) :
                 d \in shorter}

\* The lock files `terraform init` may leave behind, as hcl.load returns them.
LockDocs ==
    {IF d = <<>> THEN <<>> ELSE <<<<"provider", d>>>> :
        d \in LockProviders(Len(LockPool))}

----------------------------------------------------------------------------
\* State

VARIABLES
    pc,                \* the statement the run is at, "done" or "error"
    main_tf,           \* main.tf exists in the working directory
    lockfile,          \* .terraform.lock.hcl: None or Some(document)
    schemafile,        \* providers_schemas.json: None or Some([ok, json])
    scriptfile,        \* generate_schemas_script.tf: None or Some(text)
    tagfiles,          \* the *.hcl.tags files: path -> what ctags wrote
    provider_versions, \* local of _generate_terraform_tags
    schemas,           \* local of _generate_terraform_tags
    idx,               \* position of the for loop of line 112
    events,            \* this run's file operations and subprocess calls
    run,               \* number of the current run
    previous           \* the events of the run before this one

vars == <<pc, main_tf, lockfile, schemafile, scriptfile, tagfiles,
          provider_versions, schemas, idx, events, run, previous>>

Event(op, path, argv, rc, data, i) ==
    [op |-> op, path |-> path, argv |-> argv, rc |-> rc, data |-> data,
     idx |-> i]

\* The statements of __main__ and of _generate_terraform_tags, in order.
StepAfterSwapped(label) ==
    CASE label = "main_tf" -> "schema"
      [] label = "schema"  -> "init"
      [] label = "init"    -> "lock"
      [] label = "lock"    -> "json"
      [] label = "write"   -> "ctags"
      [] label = "ctags"   -> "unlink"
StepAfter(label) ==
    CASE label = "main_tf" -> "init"
      [] label = "init"    -> "schema"
      [] label = "schema"  -> "lock"
      [] label = "lock"    -> "json"
      [] label = "write"   -> "ctags"
      [] label = "ctags"   -> "unlink"

\* schemas.get('provider_schemas', {}).items()
ProviderItems(json) == DictGet(json, "provider_schemas", <<>>)

\* The for statement of line 112: the next item, or the end of the function.
LoopPc(json, i) == IF i <= Len(ProviderItems(json)) THEN "write" ELSE "done"

\* The loop body's locals for item i (lines 112-115).
provider_spec(i) == ProviderItems(schemas)[i][1]
provider_schema(i) == ProviderItems(schemas)[i][2]
provider_version(i) == DictGet(provider_versions, provider_spec(i), None)
resource_schemas(i) ==
    DictKeys(DictGet(provider_schema(i), "resource_schemas", <<>>))
data_source_schemas(i) ==
    DictKeys(DictGet(provider_schema(i), "data_source_schemas", <<>>))

\* Lines 106-107: provider_versions[provider_spec] = provider_data.get('version')
RECURSIVE BuildVersions(_, _)
BuildVersions(versions, items) ==
    IF items = <<>> THEN versions
    ELSE BuildVersions(
             DictSet(versions, Head(items)[1],
                     DictGetOpt(Head(items)[2], "version")),
             Tail(items))

\* The working directory outlives the program: it is absent or empty on a
\* first run, and still holds the synthetic file after a run that ctags
\* aborted. What else it holds is overwritten before it is read.
Init ==
    /\ pc = "main_tf"
    /\ main_tf = FALSE
    /\ lockfile = None
    /\ schemafile = None
    /\ scriptfile \in {None, Some(STALE_SCRIPT)}
    /\ tagfiles = <<>>
    /\ provider_versions = <<>>
    /\ schemas = <<>>
    /\ idx = 0
    /\ events = <<>>
    /\ run = 1
    /\ previous = <<>>

----------------------------------------------------------------------------
\* _generate_terraform_provider_schemas

\* Lines 83-85: create the working directory and write main.tf.
WriteMainTf ==
    /\ pc = "main_tf"
    /\ main_tf' = TRUE
    /\ events' = Append(events,
           Event("write", PathJoin(WORKING_DIRECTORY, MAIN_TF_FILENAME),
                 <<>>, 0, None, 0))
    /\ pc' = StepAfter("main_tf")
    /\ UNCHANGED <<lockfile, schemafile, scriptfile, tagfiles,
                   provider_versions, schemas, idx, run, previous>>

\* Line 88: terraform init; on success it leaves the lock file behind.
TerraformInit ==
    /\ pc = "init"
    /\ \E rc \in ExitCodes :
        /\ events' = Append(events,
               Event("call", WORKING_DIRECTORY, TerraformInitArgv, rc,
                     None, 0))
        /\ IF rc = 0
           THEN \E doc \in LockDocs : lockfile' = Some(doc)
           ELSE lockfile' = lockfile
        /\ pc' = IF check_call(rc) THEN StepAfter("init") ELSE "error"
    /\ UNCHANGED <<main_tf, schemafile, scriptfile, tagfiles,
                   provider_versions, schemas, idx, run, previous>>

\* Lines 91-96: open the schema file for writing, run the schema export
\* with its standard output redirected into the file.
SchemaExport ==
    /\ pc = "schema"
    /\ \E rc \in ExitCodes :
        /\ events' = events \o
               <<Event("write",
                       PathJoin(WORKING_DIRECTORY, TERRAFORM_SCHEMAS_FILENAME),
                       <<>>, 0, None, 0),
                 Event("call", WORKING_DIRECTORY, TerraformSchemaArgv, rc,
                       None, 0)>>
        /\ IF rc = 0
           THEN \E doc \in SchemaDocs :
                    schemafile' = Some([ok |-> TRUE, json |-> doc])
           ELSE schemafile' = Some([ok |-> FALSE, json |-> <<>>])
        /\ pc' = IF check_call(rc) THEN StepAfter("schema") ELSE "error"
    /\ UNCHANGED <<main_tf, lockfile, scriptfile, tagfiles,
                   provider_versions, schemas, idx, run, previous>>

----------------------------------------------------------------------------
\* _generate_terraform_tags

\* Lines 103-107: read the lock file into provider_versions.
ReadLockfile ==
    /\ pc = "lock"
    /\ lockfile # None
    /\ provider_versions' =
           BuildVersions(<<>>, DictGet(lockfile[1], "provider", <<>>))
    /\ events' = Append(events,
           Event("read", PathJoin(WORKING_DIRECTORY, LOCK_FILENAME),
                 <<>>, 0, None, 0))
    /\ pc' = StepAfter("lock")
    /\ UNCHANGED <<main_tf, lockfile, schemafile, scriptfile, tagfiles,
                   schemas, idx, run, previous>>

\* Lines 109-112: read the schema JSON and enter the loop over the providers.
ReadSchemas ==
    /\ pc = "json"
    /\ schemafile # None
    /\ schemafile[1].ok
    /\ schemas' = schemafile[1].json
    /\ idx' = 1
    /\ events' = Append(events,
           Event("read",
                 PathJoin(WORKING_DIRECTORY, TERRAFORM_SCHEMAS_FILENAME),
                 <<>>, 0, None, 0))
    /\ pc' = LoopPc(schemas', 1)
    /\ UNCHANGED <<main_tf, lockfile, schemafile, scriptfile, tagfiles,
                   provider_versions, run, previous>>

----------------------------------------------------------------------------
\* _generate_terraform_tags_for_provider

\* Lines 129-136: write the synthetic configuration file.
WriteScript ==
    /\ pc = "write"
    /\ scriptfile' = Some(script_text(scriptfile, resource_schemas(idx),
                                      data_source_schemas(idx)))
    /\ events' = Append(events,
           Event("write", script_filename, <<>>, 0, scriptfile', idx))
    /\ pc' = StepAfter("write")
    /\ UNCHANGED <<main_tf, lockfile, schemafile, tagfiles,
                   provider_versions, schemas, idx, run, previous>>

\* What a ctags process leaves at its output path: on exit code 0 the tags of
\* its input; on another exit code the output is untouched or incomplete.
CtagsOutcomes(rc, out) ==
    IF rc = 0
    THEN {DictSet(tagfiles, out, [src |-> scriptfile, complete |-> TRUE])}
    ELSE {tagfiles,
          DictSet(tagfiles, out, [src |-> scriptfile, complete |-> FALSE])}

\* Lines 138-142: run ctags on the synthetic file.
Ctags ==
    /\ pc = "ctags"
    /\ \E rc \in ExitCodes :
        LET argv == ctags_argv(provider_spec(idx), provider_version(idx))
        IN  /\ events' = Append(events,
                   Event("call", WORKING_DIRECTORY, argv, rc, scriptfile,
                         idx))
            /\ tagfiles' \in CtagsOutcomes(rc, argv[3])
            /\ pc' = IF check_call(rc) THEN StepAfter("ctags") ELSE "error"
    /\ UNCHANGED <<main_tf, lockfile, schemafile, scriptfile,
                   provider_versions, schemas, idx, run, previous>>

\* Line 144, then the next iteration of the loop of line 112.
UnlinkScript ==
    /\ pc = "unlink"
    /\ scriptfile # None
    /\ scriptfile' = Unlink(scriptfile)
    /\ events' = Append(events,
           Event("unlink", script_filename, <<>>, 0, None, idx))
    /\ idx' = idx + 1
    /\ pc' = LoopPc(schemas, idx + 1)
    /\ UNCHANGED <<main_tf, lockfile, schemafile, tagfiles,
                   provider_versions, schemas, run, previous>>

----------------------------------------------------------------------------
\* The program, run once

Next ==
    \/ WriteMainTf
    \/ TerraformInit
    \/ SchemaExport
    \/ ReadLockfile
    \/ ReadSchemas
    \/ WriteScript
    \/ Ctags
    \/ UnlinkScript

Spec == Init /\ [][Next]_vars

----------------------------------------------------------------------------
\* _generate_terraform_tags called again and again on a working directory
\* that holds a lock file and a schema document, and possibly the synthetic
\* file an aborted run left behind

InitTags ==
    /\ pc = "lock"
    /\ main_tf = TRUE
    /\ lockfile \in {Some(doc) : doc \in LockDocs}
    /\ schemafile \in {Some([ok |-> TRUE, json |-> doc]) : doc \in SchemaDocs}
    /\ scriptfile \in {None, Some(STALE_SCRIPT)}
    /\ tagfiles = <<>>
    /\ provider_versions = <<>>
    /\ schemas = <<>>
    /\ idx = 0
    /\ events = <<>>
    /\ run = 1
    /\ previous = <<>>

\* The function has returned and is called once more.
CallAgain ==
    /\ pc = "done"
    /\ run < MaxRuns
    /\ run' = run + 1
    /\ previous' = events
    /\ events' = <<>>
    /\ provider_versions' = <<>>
    /\ schemas' = <<>>
    /\ idx' = 0
    /\ pc' = "lock"
    /\ UNCHANGED <<main_tf, lockfile, schemafile, scriptfile, tagfiles>>

NextTags ==
    \/ ReadLockfile
    \/ ReadSchemas
    \/ WriteScript
    \/ Ctags
    \/ UnlinkScript
    \/ CallAgain

SpecTags == InitTags /\ [][NextTags]_vars

----------------------------------------------------------------------------
\* Vocabulary of the properties: what is on disk and what the run did

\* The schema document and the lock file's provider section, as on disk.
DocProviders == ProviderItems(schemafile[1].json)
LockedProviders == DictGet(lockfile[1], "provider", <<>>)

SpecOf(k) == DocProviders[k][1]
ResourceNames(k) ==
    Range(DictKeys(DictGet(DocProviders[k][2], "resource_schemas", <<>>)))
DataSourceNames(k) ==
    Range(DictKeys(DictGet(DocProviders[k][2], "data_source_schemas", <<>>)))

\* The version the lock file records for provider k, or "unknown".
VersionToken(k) ==
    IF HasKey(LockedProviders, SpecOf(k))
    THEN DictGet(DictGet(LockedProviders, SpecOf(k), <<>>), "version", UNKNOWN)
    ELSE UNKNOWN

IsCtags(e) == e.op = "call" /\ e.argv[1] = CTAGS_COMMAND
IsTerraformInit(e) == e.op = "call" /\ e.argv = TerraformInitArgv
IsTerraformSchema(e) == e.op = "call" /\ e.argv = TerraformSchemaArgv
IsScriptWrite(e) == e.op = "write" /\ e.path = script_filename

CtagsCalls == {i \in 1..Len(events) : IsCtags(events[i])}

\* The lines of a text, each without its terminating newline (a last line
\* without a newline counts as a line).
Lines(text) ==
    LET whole == IF text # <<>> /\ text[Len(text)] # "\n"
                 THEN text \o <<"\n">> ELSE text
        ends == {i \in 1..Len(whole) : whole[i] = "\n"}
        end(j) == CHOOSE i \in ends :
                      Cardinality({m \in ends : m < i}) = j - 1
    IN  [j \in 1..Cardinality(ends) |->
            SubSeq(whole, IF j = 1 THEN 1 ELSE end(j - 1) + 1, end(j) - 1)]

Occurrences(lines, line) ==
    Cardinality({i \in 1..Len(lines) : lines[i] = line})

ResourceDeclaration(n) ==
    <<"r", "e", "s", "o", "u", "r", "c", "e", " ", "\"">> \o n \o <<"\"", " ", "\"">> \o n \o <<"\"", " ", "{", "}">>
DataDeclaration(n) ==
    <<"d", "a", "t", "a", " ", "\"">> \o n \o <<"\"", " ", "\"">> \o n \o <<"\"", " ", "{", "}">>

\* The text holds one line per resource name and per data source name of
\* provider k, and nothing else.
ExactlyDeclarationsOf(text, k) ==
    LET lines == Lines(text)
    IN  /\ \A n \in ResourceNames(k) :
               Occurrences(lines, ResourceDeclaration(n)) = 1
        /\ \A n \in DataSourceNames(k) :
               Occurrences(lines, DataDeclaration(n)) = 1
        /\ \A i \in 1..Len(lines) :
               \/ \E n \in ResourceNames(k) : lines[i] = ResourceDeclaration(n)
               \/ \E n \in DataSourceNames(k) : lines[i] = DataDeclaration(n)
        /\ (text = <<>> \/ text[Len(text)] = "\n")

----------------------------------------------------------------------------
\* C1: every ctags invocation for a provider that is in the schema JSON but
\* not in the lock file's provider section writes to
\* <provider_name>-unknown.hcl.tags.
C1_UnknownVersionToken ==
    \A i \in CtagsCalls :
        ~HasKey(LockedProviders, SpecOf(events[i].idx)) =>
            events[i].argv[3] =
                PathJoin(WORKING_DIRECTORY,
                         provider_name(SpecOf(events[i].idx))
                             \o <<"-", "u", "n", "k", "n", "o", "w", "n", ".", "h", "c", "l", ".", "t", "a", "g", "s">>)

C1_Witness ==
    /\ pc = "done"
    /\ \E i \in CtagsCalls :
        /\ ~HasKey(LockedProviders, SpecOf(events[i].idx))
        /\ LockedProviders # <<>>

\* C2: when ctags is invoked, the synthetic file holds exactly one resource
\* line per resource name and one data line per data source name of the
\* provider, no line twice and no other line, in whatever order the names
\* come.
C2_OneLinePerName ==
    \A i \in CtagsCalls :
        /\ events[i].data # None
        /\ ExactlyDeclarationsOf(events[i].data[1], events[i].idx)
        /\ Len(Lines(events[i].data[1])) =
               Cardinality(ResourceNames(events[i].idx))
                   + Cardinality(DataSourceNames(events[i].idx))

C2_Witness ==
    \E i \in CtagsCalls :
        /\ data_source_schemas(events[i].idx) = <<NAME_PTR, NAME_A>>
        /\ Lines(events[i].data[1]) =
               <<DataDeclaration(NAME_PTR), DataDeclaration(NAME_A)>>

\* One leading host removed, if the spec starts with one; then / becomes _.
NameAsClaimed(spec) ==
    str_replace(IF StartsWith(spec, REGISTRY_HOST)
                THEN SubSeq(spec, Len(REGISTRY_HOST) + 1, Len(spec))
                ELSE spec,
                <<"/">>, <<"_">>)

\* C3 as stated: the provider name in the tag file's name is the spec with
\* one leading registry.terraform.io/ removed, if it starts with one, and
\* every / replaced by _; a later occurrence of the host stays.
C3_LeadingHostOnly ==
    \A i \in CtagsCalls :
        events[i].argv[3] =
            PathJoin(WORKING_DIRECTORY,
                     NameAsClaimed(SpecOf(events[i].idx)) \o <<"-">>
                         \o VersionToken(events[i].idx) \o TAGS_SUFFIX)

\* Provider k's file was written, passed to ctags and deleted.
Processed(k) ==
    /\ \E i \in 1..Len(events) :
           IsScriptWrite(events[i]) /\ events[i].idx = k
    /\ \E i \in CtagsCalls :
           /\ events[i].idx = k
           /\ events[i].data # None
           /\ (ResourceNames(k) \cup DataSourceNames(k) = {}
                  => events[i].data = Some(<<>>))
    /\ \E i \in 1..Len(events) :
           events[i].op = "unlink" /\ events[i].idx = k

\* C4: once a provider has been processed the synthetic file does not exist,
\* also for a provider without resources and data sources, whose empty file
\* was written, passed to ctags and deleted.
C4_ScriptDeletedAfterProvider ==
    (pc \in {"write", "done"} /\ idx > 1) =>
        /\ scriptfile = None
        /\ \A k \in 1..(idx - 1) : Processed(k)

C4_Witness ==
    /\ pc = "done"
    /\ idx = 3
    /\ ResourceNames(2) \cup DataSourceNames(2) = {}
    /\ scriptfile = None

\* C5: a subprocess that exits non-zero is the last thing the run does: the
\* run is in its error state and no call, file operation or provider
\* follows it.
C5_FailureAborts ==
    \A i \in 1..Len(events) :
        (events[i].op = "call" /\ events[i].rc # 0) =>
            /\ i = Len(events)
            /\ pc = "error"

C5_Witness ==
    /\ pc = "error"
    /\ IsCtags(events[Len(events)])
    /\ events[Len(events)].idx = 1
    /\ Len(DocProviders) = 2

\* The working directory of the end-to-end scenario.
EndToEndCase ==
    /\ schemafile[1].json =
           <<<<"provider_schemas",
               <<<<SPEC_DNS,
                   <<<<"resource_schemas", <<<<NAME_A, "block">>>>>>>>>>>>>>>>
    /\ HasKey(LockedProviders, SPEC_DNS)

\* C6: in a run that returns, ctags is invoked exactly once per provider of
\* the schema JSON, with -f <working dir>/<name>-<version>.hcl.tags and the
\* synthetic file, which then holds that provider's declarations only. For
\* the one provider registry.terraform.io/hashicorp/dns with resource
\* dns_a_record_set, no data source and locked version 3.2.4: the output is
\* hashicorp_dns-3.2.4.hcl.tags and the input the one resource line.
C6_OneInvocationPerProvider ==
    /\ \A i \in CtagsCalls :
        LET k == events[i].idx
        IN  /\ events[i].argv =
                   <<<<"c", "t", "a", "g", "s">>, <<"-", "f">>,
                     WORKING_DIRECTORY \o <<"/">> \o provider_name(SpecOf(k))
                         \o <<"-">> \o VersionToken(k) \o <<".", "h", "c", "l", ".", "t", "a", "g", "s">>,
                     WORKING_DIRECTORY \o <<"/", "g", "e", "n", "e", "r", "a", "t", "e", "_", "s", "c", "h", "e", "m", "a", "s", "_", "s", "c", "r", "i", "p", "t", ".", "t", "f">>>>
            /\ events[i].data # None
            /\ ExactlyDeclarationsOf(events[i].data[1], k)
            /\ \A j \in CtagsCalls : events[j].idx = k => j = i
    /\ pc = "done" =>
           \A k \in 1..Len(DocProviders) :
               \E i \in CtagsCalls : events[i].idx = k
    /\ (pc = "done" /\ EndToEndCase) =>
           \E i \in CtagsCalls :
               /\ CtagsCalls = {i}
               /\ events[i].argv[3] =
                      <<"/", "t", "m", "p", "/", "g", "e", "n", "e", "r", "a", "t", "e", "_", "t", "e", "r", "r", "a", "f", "o", "r", "m", "_", "c", "t", "a", "g", "s", "/", "h", "a", "s", "h", "i", "c", "o", "r", "p", "_", "d", "n", "s", "-", "3", ".", "2", ".", "4", ".", "h", "c", "l", ".", "t", "a", "g", "s">>
               /\ events[i].data =
                      Some(<<"r", "e", "s", "o", "u", "r", "c", "e", " ", "\"", "d", "n", "s", "_", "a", "_", "r", "e", "c", "o", "r", "d", "_", "s", "e", "t", "\"", " ", "\"", "d", "n", "s", "_", "a", "_", "r", "e", "c", "o", "r", "d", "_", "s", "e", "t", "\"", " ", "{", "}", "\n">>)

C6_Witness ==
    /\ pc = "done"
    /\ EndToEndCase

\* The ctags invocations of a run: argument list and input file contents.
RECURSIVE Invocations(_)
Invocations(evs) ==
    IF evs = <<>> THEN <<>>
    ELSE (IF IsCtags(Head(evs))
          THEN <<<<Head(evs).argv, Head(evs).data>>>>
          ELSE <<>>)
         \o Invocations(Tail(evs))

\* C7: a second call on the unchanged lock file and schema JSON writes the
\* same synthetic files and invokes ctags with the same argument lists, in
\* the same order, as the call before it.
C7_SameInvocationsAgain ==
    (pc = "done" /\ run > 1) => Invocations(events) = Invocations(previous)

C7_Witness ==
    /\ pc = "done"
    /\ run = 2
    /\ Len(Invocations(events)) = 2
    /\ Len(Invocations(previous)) = 2

\* C8 as stated: in a run that succeeds, two different providers never have
\* the same output file.
C8_DistinctTagFiles ==
    pc = "done" =>
        \A i, j \in CtagsCalls :
            i # j => events[i].argv[3] # events[j].argv[3]

\* A terraform call that exited with code 0.
InitSucceeded(e) == IsTerraformInit(e) /\ e.rc = 0
SchemaSucceeded(e) == IsTerraformSchema(e) /\ e.rc = 0

\* C9: terraform init, then the schema export, then the reads of the lock
\* file and the schema JSON, then per provider, in the document's order:
\* write, ctags, unlink; a provider's file is written only after the
\* provider before it is done.
C9_LinearOrder ==
    \A i \in 1..Len(events) :
        LET e == events[i]
        IN  /\ e.op = "read" =>
                   \E a, b \in 1..(i - 1) :
                       /\ a < b
                       /\ InitSucceeded(events[a])
                       /\ SchemaSucceeded(events[b])
            /\ IsTerraformSchema(e) =>
                   \E a \in 1..(i - 1) : InitSucceeded(events[a])
            /\ IsScriptWrite(e) =>
                   /\ \E a, b \in 1..(i - 1) :
                          /\ a < b
                          /\ events[a].op = "read"
                          /\ events[a].path =
                                 PathJoin(WORKING_DIRECTORY, LOCK_FILENAME)
                          /\ events[b].op = "read"
                          /\ events[b].path =
                                 PathJoin(WORKING_DIRECTORY,
                                          TERRAFORM_SCHEMAS_FILENAME)
                   /\ e.idx = 1 =>
                          \A a \in 1..(i - 1) : ~IsScriptWrite(events[a])
                   /\ e.idx > 1 =>
                          \E a, b \in 1..(i - 1) :
                              /\ a < b
                              /\ b = i - 1
                              /\ IsCtags(events[a])
                              /\ events[a].rc = 0
                              /\ events[a].idx = e.idx - 1
                              /\ events[b].op = "unlink"
                              /\ events[b].idx = e.idx - 1
            /\ IsCtags(e) =>
                   /\ IsScriptWrite(events[i - 1])
                   /\ events[i - 1].idx = e.idx
            /\ e.op = "unlink" =>
                   /\ IsCtags(events[i - 1])
                   /\ events[i - 1].rc = 0
                   /\ events[i - 1].idx = e.idx

C9_Witness ==
    /\ pc = "done"
    /\ Len(DocProviders) = 2
    /\ Len(events) = 12

\* C10 as stated: when ctags exits non-zero the synthetic file stays, holding
\* the failing provider's declarations, and the tag files written for the
\* providers before it are as they were.
C10_AbortKeepsEarlierTagFiles ==
    [][(pc = "ctags" /\ pc' = "error") =>
           /\ scriptfile' # None
           /\ ExactlyDeclarationsOf(scriptfile'[1], idx)
           /\ \A i \in CtagsCalls :
                  DictGetOpt(tagfiles', events[i].argv[3])
                      = DictGetOpt(tagfiles, events[i].argv[3])]_vars

====
